---- MODULE Spec2Model ----
(***************************************************************************)
(* Model of main.py (IsThePortOpen): the Tk main thread running the App's  *)
(* handlers, the _refresh_worker threads, and the ThreadPoolExecutor       *)
(* threads running check_tcp_open.                                         *)
(*                                                                         *)
(* Every method of App is an operator from a record of the App's fields    *)
(* (and of the objects it reaches: the pool, Tk timers, threads) to the    *)
(* record after the call, so that a handler is the composition of the      *)
(* calls it makes.  The main thread runs one handler at a time; the two    *)
(* places where another thread can observe a handler half way              *)
(* (rebuild_rows between clear() and the appends, apply_settings between   *)
(* the assignments and the pool replacement) are kept in `ui`.             *)
(***************************************************************************)
EXTENDS Integers, Sequences, FiniteSets, TLC

\* ---------------------------------------------------------------- bounds
MaxTargets == 2        \* add_target is offered while the list is shorter
MaxScans == 2          \* threads kept: the running one and those with probes left
MaxNames == 3          \* add_target is offered in the specification of the names
MaxTime == 4           \* seconds the clock of the timed specification runs

None == "None"
NoTimer == 0          \* self._auto_after_id is None
MsPerSecond == 1000   \* after() takes milliseconds, the setting is in seconds

Timeouts == {1, 2}         \* values of TIMEOUT_SECONDS offered
WorkerCounts == {1, 2}     \* values of MAX_WORKERS offered
AutoRefresh == {0, 1, 2}    \* values of AUTO_REFRESH_SECONDS offered

\* A name is the text typed by the user followed by the " (n)" suffixes
\* appended to it: <<"web">> is "web", <<"web", 2>> is "web (2)".
Target(n, h, p) == [name |-> n, host |-> h, port |-> p]
InputNames == {<<"web">>}
InputTargets == {Target(n, "10.0.0.1", 80) : n \in InputNames}
InitTargetLists ==
    { <<>>,
      <<Target(<<"web">>, "10.0.0.1", 80)>>,
      <<Target(<<"web">>, "10.0.0.1", 80), Target(<<"web", 2>>, "10.0.0.1", 80)>> }

\* ------------------------------------------------------- check_tcp_open
\* What socket.create_connection does: it connects, or raises an exception,
\* given here with the classes the except clauses test it against.
ConnectResults ==
    {"connected", "gaierror", "TimeoutError", "ConnectionRefusedError",
     "OSError", "UnicodeError"}

\* The results the probes of the scans are given.
ScanConnectResults == {"connected", "ConnectionRefusedError", "UnicodeError"}

Bases(c) ==
    CASE c = "gaierror" -> {"gaierror", "OSError", "Exception"}
      [] c = "TimeoutError" -> {"TimeoutError", "OSError", "Exception"}
      [] c = "ConnectionRefusedError" ->
            {"ConnectionRefusedError", "ConnectionError", "OSError", "Exception"}
      [] c = "OSError" -> {"OSError", "Exception"}
      [] c = "UnicodeError" -> {"UnicodeError", "ValueError", "Exception"}
      [] OTHER -> {}

Returned(status, latency) == [status |-> status, latency |-> latency, raised |-> None]
Raised(c) == [status |-> None, latency |-> None, raised |-> c]

\* The clause for OSError comes first.
check_oserror_first(c) ==
    IF c = "connected" THEN Returned("OPEN", "latency_ms")
    ELSE IF "OSError" \in Bases(c) THEN
        IF "ConnectionRefusedError" \in Bases(c) THEN Returned("CLOSED", None)
        ELSE Returned("ERROR", None)
    ELSE IF "gaierror" \in Bases(c) THEN Returned("DNS_FAIL", None)
    ELSE IF "TimeoutError" \in Bases(c) THEN Returned("TIMEOUT", None)
    ELSE Raised(c)

check_tcp_open(c) ==
    IF c = "connected" THEN Returned("OPEN", "latency_ms")
    ELSE IF "gaierror" \in Bases(c) THEN Returned("DNS_FAIL", None)
    ELSE IF "TimeoutError" \in Bases(c) THEN Returned("TIMEOUT", None)
    ELSE IF "OSError" \in Bases(c) THEN
        IF "ConnectionRefusedError" \in Bases(c) THEN Returned("CLOSED", None)
        ELSE Returned("ERROR", None)
    ELSE Raised(c)

Outcomes == {"OPEN", "CLOSED", "TIMEOUT", "DNS_FAIL", "ERROR"}

\* ------------------------------------------------------------- variables
VARIABLES
    targets,               \* self.targets
    rows,                  \* self.rows: the live TargetRow objects
    timeout,               \* self.timeout
    max_workers,           \* self.max_workers
    auto_refresh_seconds,  \* self.auto_refresh_seconds
    executor,              \* self.executor: the pool in use
    refresh_in_progress,   \* self.refresh_in_progress
    auto_after_id,         \* self._auto_after_id
    timers,                \* Tk: ids of the pending after(ms, _auto_refresh_tick)
    buttons,               \* state of refresh_button, add_btn, settings_button
    scans,                 \* the _refresh_worker threads, in order of start
    saved,                 \* the ini file as last written by save_state
    clock,                 \* Tk: the time in ms and when each pending after() is
                           \* due; history: the latest _schedule_auto_refresh call
    dialog,                \* the modal dialog open: none, add or settings
    ui,                    \* where the main thread is inside a handler
    afterQ,                \* Tk: the after(0, ...) callbacks not yet run
    lastCall               \* history: what the latest refresh_async call did,
                           \* kept until a callback ends the scan

app == <<targets, rows, timeout, max_workers, auto_refresh_seconds, executor,
         refresh_in_progress, auto_after_id, timers, buttons, scans, saved, clock>>
vars == <<app, dialog, ui, afterQ, lastCall>>

\* The fields the methods of App read and write, as one record.
Self ==
    [ targets |-> targets, rows |-> rows, timeout |-> timeout,
      max_workers |-> max_workers, auto_refresh_seconds |-> auto_refresh_seconds,
      executor |-> executor,
      refresh_in_progress |-> refresh_in_progress,
      auto_after_id |-> auto_after_id, timers |-> timers, buttons |-> buttons,
      scans |-> scans, saved |-> saved, clock |-> clock ]

Commit(st) ==
    /\ targets' = st.targets
    /\ rows' = st.rows
    /\ timeout' = st.timeout
    /\ max_workers' = st.max_workers
    /\ auto_refresh_seconds' = st.auto_refresh_seconds
    /\ executor' = st.executor
    /\ refresh_in_progress' = st.refresh_in_progress
    /\ auto_after_id' = st.auto_after_id
    /\ timers' = st.timers
    /\ buttons' = st.buttons
    /\ scans' = st.scans
    /\ saved' = st.saved
    /\ clock' = st.clock

\* ------------------------------------------------------------- TargetRow
TargetRow(t) == [target |-> t, status |-> "-", delete_btn |-> "normal"]

set_checking(row) == [row EXCEPT !.status = "Checking..."]

\* The label of lines 240-244: the status, with the latency after OPEN.
set_result(row, status, latency) ==
    [row EXCEPT !.status = IF status = "OPEN" /\ latency # None
                           THEN "OPEN (latency_ms)" ELSE status]

set_delete_enabled(row, enabled) ==
    [row EXCEPT !.delete_btn = IF enabled THEN "normal" ELSE "disabled"]

\* ----------------------------------------------------------- App methods
set_editing_enabled(st, enabled) ==
    [st EXCEPT
        !.buttons.add_btn = IF enabled THEN "normal" ELSE "disabled",
        !.buttons.settings_button = IF enabled THEN "normal" ELSE "disabled",
        !.rows = [i \in DOMAIN st.rows |-> set_delete_enabled(st.rows[i], enabled)]]

persist(st) ==
    [st EXCEPT !.saved = [timeout |-> st.timeout, max_workers |-> st.max_workers,
                          auto_refresh |-> st.auto_refresh_seconds,
                          targets |-> st.targets]]

\* A thread holds a ThreadPoolExecutor by reference.  The pools that were
\* shut down all behave alike (submit raises, the queue is empty, the probes
\* that run go on), so a reference says only whether it is to the pool in
\* use or to one that was discarded.
InUse == "in use"
Discarded == "discarded"

\* threading.Thread(target=self._refresh_worker).start(): the thread has
\* not read anything yet.  History, kept for the properties: cfg0, the
\* timeout, the pool and the targets in force when the thread was started;
\* exc, the exception that took the thread to its except clause.
NewScan(st) ==
    [ pc |-> "start", snap |-> <<>>, ex |-> None, futs |-> <<>>, results |-> <<>>,
      exc |-> None,
      cfg0 |-> [timeout |-> st.timeout, pool |-> InUse, targets |-> st.targets] ]

\* The guard of line 651 left out.
NeverRunning(st) == FALSE

\* The check-and-set of lines 651-657.
AlreadyRunning(st) == st.refresh_in_progress

\* The rows are reset before the flag is tested.
refresh_async_resets(st) ==
    IF AlreadyRunning(st)
    THEN [st EXCEPT !.rows = [i \in DOMAIN st.rows |-> set_checking(st.rows[i])]]
    ELSE LET s1 == [st EXCEPT !.refresh_in_progress = TRUE,
                              !.buttons.refresh_button = "disabled"]
             s2 == set_editing_enabled(s1, FALSE)
             s3 == [s2 EXCEPT !.rows = [i \in DOMAIN s2.rows |-> set_checking(s2.rows[i])]]
         IN [s3 EXCEPT !.scans = Append(@, NewScan(s3))]

refresh_async(st) ==
    IF AlreadyRunning(st) THEN st
    ELSE LET s1 == [st EXCEPT !.refresh_in_progress = TRUE,
                              !.buttons.refresh_button = "disabled"]
             s2 == set_editing_enabled(s1, FALSE)
             s3 == [s2 EXCEPT !.rows = [i \in DOMAIN s2.rows |-> set_checking(s2.rows[i])]]
         IN [s3 EXCEPT !.scans = Append(@, NewScan(s3))]

\* Tk hands out a new id for every after() call.
NewTimerId(st) ==
    CHOOSE n \in 1..(Cardinality(st.timers) + 2) : n \notin st.timers /\ n # st.auto_after_id

\* self.after(ms, self._auto_refresh_tick): Tk programs the callback for ms
\* milliseconds from now and returns its id.
after(st, ms) ==
    LET id == NewTimerId(st)
    IN [st EXCEPT !.timers = @ \cup {id},
                  !.auto_after_id = id,
                  !.clock.due = [i \in st.timers \cup {id} |->
                                    IF i = id THEN st.clock.now + ms ELSE @[i]]]

\* Tk forgets a callback: it has fired, or after_cancel was called on it.
Expire(st, id) ==
    [st EXCEPT !.timers = @ \ {id},
               !.clock.due = [i \in st.timers \ {id} |-> @[i]]]

\* History: when _schedule_auto_refresh was last called, and the interval
\* then in force.
Scheduled(st) ==
    [st EXCEPT !.clock.sched = [at |-> st.clock.now,
                                interval |-> st.auto_refresh_seconds]]

\* The pending trigger is not cancelled before a new one is programmed.
schedule_without_cancel(st) ==
    IF st.auto_refresh_seconds > 0
    THEN Scheduled(after(st, st.auto_refresh_seconds * MsPerSecond))
    ELSE Scheduled([st EXCEPT !.auto_after_id = NoTimer])

\* The interval is handed to after() as it is, in seconds.
DelayInSeconds(st) == st.auto_refresh_seconds

\* Line 629, the first argument of after().
Delay(st) == st.auto_refresh_seconds * MsPerSecond

schedule_auto_refresh(st) ==
    LET s1 == IF st.auto_after_id # NoTimer
              THEN [Expire(st, st.auto_after_id) EXCEPT !.auto_after_id = NoTimer]
              ELSE st
    IN IF s1.auto_refresh_seconds > 0
       THEN Scheduled(after(s1, Delay(s1)))
       ELSE Scheduled(s1)

auto_refresh_tick(st) == schedule_auto_refresh(refresh_async(st))

\* rebuild_rows, lines 554-556: every live row is destroyed, also in the
\* lists of rows the worker threads hold, and self.rows is emptied.
DestroyRows(scan) ==
    [scan EXCEPT !.snap = [k \in DOMAIN scan.snap |-> [scan.snap[k] EXCEPT !.destroyed = TRUE]]]

rebuild_rows_clear(st) ==
    [st EXCEPT !.rows = <<>>,
               !.scans = [s \in DOMAIN st.scans |-> DestroyRows(st.scans[s])]]

\* rebuild_rows, lines 558-559: one turn of the loop.
rebuild_rows_append(st) ==
    [st EXCEPT !.rows = Append(@, TargetRow(st.targets[Len(st.rows) + 1]))]

\* A colliding name is given the suffix (2), whatever names there are.
SuffixTwo(base, existing, n) == Append(base, 2)

\* add_target, lines 577-583: the name the target is stored under.
RECURSIVE FirstFree(_, _, _)
FirstFree(base, existing, n) ==
    IF Append(base, n) \in existing THEN FirstFree(base, existing, n + 1)
    ELSE Append(base, n)

UniqueName(st, t) ==
    LET existing == {st.targets[i].name : i \in DOMAIN st.targets}
    IN IF t.name \in existing THEN FirstFree(t.name, existing, 2) ELSE t.name

\* add_target up to the clear() inside rebuild_rows.
add_target_begin(st, t) ==
    LET s1 == [st EXCEPT !.targets = Append(@, [t EXCEPT !.name = UniqueName(st, t)])]
    IN rebuild_rows_clear(persist(s1))

\* delete_row up to the clear() inside rebuild_rows.
delete_row_begin(st, row) ==
    LET s1 == [st EXCEPT !.targets = SelectSeq(@, LAMBDA t : t # row.target)]
    IN rebuild_rows_clear(persist(s1))

\* apply_settings, lines 602-606.
apply_settings_assign(st, t, w, a) ==
    [st EXCEPT !.timeout = t, !.max_workers = w, !.auto_refresh_seconds = a]

\* executor.shutdown(wait=False, cancel_futures=True): the work items still
\* in the queue are taken out and their futures cancelled; the running ones
\* are left alone.  Future.cancel() does not tell the waiters of as_completed.
\* What referred to the pool now refers to a discarded pool.  History, kept
\* for the properties: at_discard, what the work item was doing then.
Drop(p) == IF p = InUse THEN Discarded ELSE p

CancelQueued(scan) ==
    [scan EXCEPT
        !.ex = Drop(@),
        !.cfg0.pool = Drop(@),
        !.futs = [k \in DOMAIN scan.futs |->
            [scan.futs[k] EXCEPT
                !.pool = Drop(@),
                !.at_discard = IF scan.futs[k].pool = InUse
                                  /\ scan.futs[k].state \in {"PENDING", "RUNNING"}
                               THEN scan.futs[k].state ELSE @,
                !.state = IF scan.futs[k].pool = InUse /\ @ = "PENDING"
                          THEN "CANCELLED" ELSE @]]]

shutdown(st) ==
    [st EXCEPT !.scans = [s \in DOMAIN st.scans |-> CancelQueued(st.scans[s])]]

\* installed is history: whether a scan was running when the pool was made.
ThreadPoolExecutor(n, running) ==
    [max_workers |-> n, installed |-> IF running THEN "running" ELSE "idle"]

\* The pool in use is given the new size; nothing is shut down.
apply_settings_resize(st, old_workers) ==
    LET s1 == [st EXCEPT !.executor.max_workers = st.max_workers]
    IN refresh_async(schedule_auto_refresh(persist(s1)))

\* The pending trigger is left as it is.
apply_settings_keeps_trigger(st) == refresh_async(persist(st))

\* apply_settings, lines 615-618.
apply_settings_end(st) == refresh_async(schedule_auto_refresh(persist(st)))

\* apply_settings, lines 608-618.
apply_settings_finish(st, old_workers) ==
    LET s1 == IF st.max_workers # old_workers
              THEN [shutdown(st) EXCEPT
                        !.executor = ThreadPoolExecutor(st.max_workers,
                                                        st.refresh_in_progress)]
              ELSE st
    IN apply_settings_end(s1)

\* recover, lines 693-696.
recover(st) ==
    [set_editing_enabled([st EXCEPT !.buttons.refresh_button = "normal"], TRUE)
        EXCEPT !.refresh_in_progress = FALSE]

\* apply_results, lines 682-683: set_result on a destroyed row raises
\* TclError, which ends the callback where it stands.
RECURSIVE apply_loop(_, _, _, _)
apply_loop(rs, snap, results, k) ==
    IF k > Len(results) THEN [rows |-> rs, raised |-> FALSE, n |-> k - 1]
    ELSE LET r == results[k]
             row == snap[r.row]
         IN IF row.destroyed THEN [rows |-> rs, raised |-> TRUE, n |-> k - 1]
            ELSE apply_loop([rs EXCEPT ![row.idx] = set_result(@, r.status, r.latency)],
                            snap, results, k + 1)

\* A thread that has handed over its callback keeps nothing but the probes
\* it left running or queued.
Outstanding(futs) ==
    SelectSeq([k \in DOMAIN futs |-> [futs[k] EXCEPT !.row = 0, !.timeout = 0, !.at_discard = None]],
              LAMBDA f : f.state \in {"PENDING", "RUNNING"})

Finished(scan) ==
    [scan EXCEPT !.pc = "done", !.snap = <<>>, !.results = <<>>, !.ex = None,
                 !.futs = Outstanding(scan.futs), !.exc = None,
                 !.cfg0 = [timeout |-> 0, pool |-> None, targets |-> <<>>]]

\* The callback applies the first result and leaves the others to later.
apply_one_result(st, s) ==
    LET scan == st.scans[s]
        first == IF scan.results = <<>> THEN <<>> ELSE <<Head(scan.results)>>
        done == apply_loop(st.rows, scan.snap, first, 1)
        s1 == [st EXCEPT !.rows = done.rows]
    IN IF done.raised
       THEN [s1 EXCEPT !.scans[s] = Finished(scan)]
       ELSE LET s2 == set_editing_enabled(
                          [s1 EXCEPT !.buttons.refresh_button = "normal"], TRUE)
            IN [s2 EXCEPT !.refresh_in_progress = FALSE,
                          !.scans[s] = Finished(scan)]

\* apply_results, lines 681-688, as run by the main thread for scan s.
apply_results(st, s) ==
    LET scan == st.scans[s]
        done == apply_loop(st.rows, scan.snap, scan.results, 1)
        s1 == [st EXCEPT !.rows = done.rows]
    IN IF done.raised
       THEN [s1 EXCEPT !.scans[s] = Finished(scan)]
       ELSE LET s2 == set_editing_enabled(
                          [s1 EXCEPT !.buttons.refresh_button = "normal"], TRUE)
            IN [s2 EXCEPT !.refresh_in_progress = FALSE,
                          !.scans[s] = Finished(scan)]

\* recover as run by the main thread for scan s.
run_recover(st, s) ==
    LET s1 == recover(st)
    IN [s1 EXCEPT !.scans[s] = Finished(st.scans[s])]

\* rebuild_rows as a whole, for the constructor (no other thread exists).
RECURSIVE rebuild_rows_fill(_)
rebuild_rows_fill(st) ==
    IF Len(st.rows) = Len(st.targets) THEN st
    ELSE rebuild_rows_fill(rebuild_rows_append(st))

rebuild_rows(st) == rebuild_rows_fill(rebuild_rows_clear(st))

\* ------------------------------------------------------------------ Init
\* App.__init__, lines 440-449 and 546-549, on what load_state returned.
Constructed(tl, t, w, a) ==
    LET s0 == [ targets |-> tl, rows |-> <<>>, timeout |-> t, max_workers |-> w,
                auto_refresh_seconds |-> a,
                executor |-> [max_workers |-> w, installed |-> "__init__"],
                refresh_in_progress |-> FALSE, auto_after_id |-> NoTimer,
                timers |-> {},
                clock |-> [now |-> 0, due |-> [i \in {} |-> 0],
                           sched |-> [at |-> 0, interval |-> 0]],
                buttons |-> [refresh_button |-> "normal", add_btn |-> "normal",
                             settings_button |-> "normal"],
                scans |-> <<>>,
                saved |-> [timeout |-> t, max_workers |-> w, auto_refresh |-> a,
                           targets |-> tl] ]
    IN schedule_auto_refresh(refresh_async(rebuild_rows(s0)))

Ready == [pc |-> "ready"]

Init ==
    \E tl \in InitTargetLists, t \in Timeouts, w \in WorkerCounts, a \in AutoRefresh :
        LET st == Constructed(tl, t, w, a)
        IN /\ targets = st.targets
           /\ rows = st.rows
           /\ timeout = st.timeout
           /\ max_workers = st.max_workers
           /\ auto_refresh_seconds = st.auto_refresh_seconds
           /\ executor = st.executor
           /\ refresh_in_progress = st.refresh_in_progress
           /\ auto_after_id = st.auto_after_id
           /\ timers = st.timers
           /\ buttons = st.buttons
           /\ scans = st.scans
           /\ saved = st.saved
           /\ clock = st.clock
           /\ dialog = "none"
           /\ ui = Ready
           /\ afterQ = <<>>
           /\ lastCall = "started"

\* ------------------------------------------------- main thread: handlers
\* The model keeps at most MaxScans threads: no scan is started on top of
\* MaxScans - 1 earlier ones whose probes are still running or queued.
WithinScans(st) == Len(refresh_async(st).scans) <= MaxScans

Call(st) == IF Len(refresh_async(st).scans) > Len(st.scans) THEN "started" ELSE "rejected"

\* The Refresh button, command=self.refresh_async.
RefreshClick ==
    /\ ui = Ready /\ dialog = "none"
    /\ buttons.refresh_button = "normal"
    /\ WithinScans(Self)
    /\ Commit(refresh_async(Self))
    /\ lastCall' = Call(Self)
    /\ UNCHANGED <<dialog, ui, afterQ>>

\* The main loop runs the callback of after(ms, self._auto_refresh_tick).
Fire(id) ==
    LET st == Expire(Self, id)
    IN /\ ui = Ready
       /\ WithinScans(st)
       /\ Commit(auto_refresh_tick(st))
       /\ lastCall' = Call(st)
       /\ UNCHANGED <<dialog, ui, afterQ>>

\* A pending after(ms, self._auto_refresh_tick) fires; when is left open.
AutoRefreshTick == \E id \in timers : Fire(id)

\* The "+" button, command=self.open_add_dialog.
open_add_dialog(running, d) == IF running THEN d ELSE "add"

OpenAddDialog ==
    /\ ui = Ready /\ dialog = "none"
    /\ buttons.add_btn = "normal"
    /\ dialog' = open_add_dialog(refresh_in_progress, dialog)
    /\ UNCHANGED <<app, ui, afterQ, lastCall>>

\* The Settings button, command=self.open_settings.
open_settings(running, d) == IF running THEN d ELSE "settings"

OpenSettings ==
    /\ ui = Ready /\ dialog = "none"
    /\ buttons.settings_button = "normal"
    /\ dialog' = open_settings(refresh_in_progress, dialog)
    /\ UNCHANGED <<app, ui, afterQ, lastCall>>

\* Cancel or Escape in either dialog.
CancelDialog ==
    /\ ui = Ready /\ dialog # "none"
    /\ dialog' = "none"
    /\ UNCHANGED <<app, ui, afterQ, lastCall>>

\* AddTargetDialog._submit with valid fields: on_submit is add_target.  The
\* handler runs up to the clear() of rebuild_rows.
AddTargetWithin(max) ==
    \E t \in InputTargets :
        /\ ui = Ready /\ dialog = "add"
        /\ Len(targets) < max
        /\ WithinScans(Self)
        /\ Commit(add_target_begin(Self, t))
        /\ ui' = [pc |-> "rebuild_rows", then |-> "add_target"]
        /\ UNCHANGED <<dialog, afterQ, lastCall>>

AddTarget == AddTargetWithin(MaxTargets)

\* delete_row goes on whether a scan is running or not.
delete_row_goes_on(running) == FALSE

\* delete_row, lines 565-566: the early return.
delete_row_returns(running) == running

\* The delete button of a row, on_delete=self.delete_row.
DeleteRow ==
    \E i \in DOMAIN rows :
        /\ ui = Ready /\ dialog = "none"
        /\ rows[i].delete_btn = "normal"
        /\ IF delete_row_returns(refresh_in_progress)
           THEN UNCHANGED <<app, ui>>
           ELSE LET st == delete_row_begin(Self, rows[i])
                IN /\ Commit(st)
                   /\ ui' = IF Len(st.targets) = 0 THEN Ready
                            ELSE [pc |-> "rebuild_rows", then |-> "delete_row"]
        /\ UNCHANGED <<dialog, afterQ, lastCall>>

\* One turn of the loop of rebuild_rows; after the last one the handler that
\* called it runs to its end (add_target calls refresh_async, the dialog
\* destroys itself).
RebuildRows ==
    /\ ui.pc = "rebuild_rows"
    /\ LET st == rebuild_rows_append(Self)
       IN IF Len(st.rows) < Len(st.targets)
          THEN /\ Commit(st)
               /\ UNCHANGED <<dialog, ui, lastCall>>
          ELSE /\ ui' = Ready
               /\ IF ui.then = "add_target"
                  THEN /\ Commit(refresh_async(st))
                       /\ lastCall' = Call(st)
                       /\ dialog' = "none"
                  ELSE /\ Commit(st)
                       /\ UNCHANGED <<dialog, lastCall>>
    /\ UNCHANGED <<afterQ>>

\* SettingsDialog._apply with valid fields: on_apply is apply_settings.
\* When max_workers changes the handler is modelled in two steps, so that a
\* worker thread can run between the assignments and the pool replacement.
ApplySettings ==
    \E t \in Timeouts, w \in WorkerCounts, a \in AutoRefresh :
        LET st == apply_settings_assign(Self, t, w, a)
        IN /\ ui = Ready /\ dialog = "settings"
           /\ IF w # max_workers
              THEN /\ WithinScans(st)
                   /\ Commit(st)
                   /\ ui' = [pc |-> "apply_settings", old_workers |-> max_workers]
                   /\ UNCHANGED <<dialog, lastCall>>
              ELSE /\ WithinScans(st)
                   /\ Commit(apply_settings_finish(st, max_workers))
                   /\ lastCall' = Call(schedule_auto_refresh(st))
                   /\ dialog' = "none"
                   /\ UNCHANGED ui
           /\ UNCHANGED afterQ

ApplySettingsFinish ==
    /\ ui.pc = "apply_settings"
    /\ Commit(apply_settings_finish(Self, ui.old_workers))
    /\ lastCall' = Call(Self)
    /\ dialog' = "none"
    /\ ui' = Ready
    /\ UNCHANGED <<afterQ>>

\* A thread that is done and has no probe left in a pool is forgotten; the
\* callbacks still queued keep pointing at their threads.
Forgotten(sc, q) ==
    {s \in DOMAIN sc : /\ sc[s].pc = "done" /\ sc[s].futs = <<>>
                       /\ \A i \in DOMAIN q : q[i].scan # s}

Position(s, gone) == s - Cardinality({j \in gone : j < s})

SweepScans(sc, q) ==
    LET gone == Forgotten(sc, q)
        RECURSIVE Keep(_)
        Keep(s) == IF s > Len(sc) THEN <<>>
                   ELSE (IF s \in gone THEN <<>> ELSE <<sc[s]>>) \o Keep(s + 1)
    IN Keep(1)

SweepQueue(sc, q) ==
    [i \in DOMAIN q |-> [q[i] EXCEPT !.scan = Position(@, Forgotten(sc, q))]]

\* The main loop runs the oldest after(0, ...) callback.
RunCallback ==
    /\ ui = Ready /\ afterQ # <<>>
    /\ LET cb == Head(afterQ)
           st == IF cb.fn = "apply_results" THEN apply_results(Self, cb.scan)
                 ELSE run_recover(Self, cb.scan)
       IN /\ Commit([st EXCEPT !.scans = SweepScans(st.scans, Tail(afterQ))])
          /\ afterQ' = SweepQueue(st.scans, Tail(afterQ))
          /\ lastCall' = IF st.refresh_in_progress THEN lastCall ELSE None
    /\ UNCHANGED <<dialog, ui>>

\* ------------------------------------------------ _refresh_worker thread
RowRef(i, row) == [idx |-> i, target |-> row.target, destroyed |-> FALSE]

Post(fn, s) == Append(afterQ, [fn |-> fn, scan |-> s])

\* Line 690, after(0, apply_results), as the last statement of the try.
PostResults(s, scan) ==
    /\ scans' = [scans EXCEPT ![s] = [scan EXCEPT !.pc = "posted"]]
    /\ afterQ' = Post("apply_results", s)

\* The except clause hands over what was collected so far.
ExceptDelivers == "apply_results"

\* Lines 692-697: the except clause posts recover.
ExceptHandler == "recover"

Except(s, scan, e) ==
    /\ scans' = [scans EXCEPT ![s] =
          [scan EXCEPT !.pc = "posted", !.exc = e, !.futs = Outstanding(scan.futs)]]
    /\ afterQ' = Post(ExceptHandler, s)

\* Line 670, list(self.rows).  With no row both loops are empty and the
\* thread goes on to line 690.
Snapshot(s) ==
    /\ scans[s].pc = "start"
    /\ LET snap == [i \in DOMAIN rows |-> RowRef(i, rows[i])]
           scan == [scans[s] EXCEPT !.snap = snap]
       IN IF Len(snap) = 0
          THEN PostResults(s, scan)
          ELSE /\ scans' = [scans EXCEPT ![s] = [scan EXCEPT !.pc = "load"]]
               /\ UNCHANGED afterQ
    /\ UNCHANGED <<targets, rows, timeout, max_workers, auto_refresh_seconds, executor,
                   refresh_in_progress, auto_after_id, timers, buttons, saved, clock,
                   dialog, ui, lastCall>>

\* Line 672, the read of self.executor: the first thing evaluated.
LoadExecutor(s) ==
    /\ scans[s].pc = "load"
    /\ scans' = [scans EXCEPT ![s] = [@ EXCEPT !.ex = InUse, !.pc = "submit"]]
    /\ UNCHANGED <<targets, rows, timeout, max_workers, auto_refresh_seconds, executor,
                   refresh_in_progress, auto_after_id, timers, buttons, saved, clock,
                   dialog, ui, afterQ, lastCall>>

Future(k, p, t) ==
    [row |-> k, pool |-> p, timeout |-> t, state |-> "PENDING",
     connect |-> None, out |-> None, yielded |-> FALSE, at_discard |-> None]

\* Lines 672-673: self.timeout is read and submit is called on the pool
\* read before.  A pool that was shut down raises RuntimeError, which takes
\* the thread to the except clause.
Submit(s) ==
    /\ scans[s].pc = "submit"
    /\ LET scan == scans[s]
           k == Len(scan.futs) + 1
       IN IF scan.ex = Discarded
          THEN Except(s, scan, "RuntimeError")
          ELSE /\ scans' = [scans EXCEPT ![s] =
                     [scan EXCEPT !.futs = Append(@, Future(k, scan.ex, timeout)),
                                  !.pc = IF k < Len(scan.snap) THEN "load" ELSE "collect"]]
               /\ UNCHANGED afterQ
    /\ UNCHANGED <<targets, rows, timeout, max_workers, auto_refresh_seconds, executor,
                   refresh_in_progress, auto_after_id, timers, buttons, saved, clock,
                   dialog, ui, lastCall>>

\* A finished future is yielded again and again.
YieldedAgain(f) == f.state = "FINISHED"

\* as_completed yields a future once, when it is finished; a future that
\* was cancelled in the queue is never reported to it.
Yieldable(f) == f.state = "FINISHED" /\ ~f.yielded

\* The results are matched to the rows by the order they arrive in.
TagInOrder(scan, k) == Len(scan.results) + 1

\* Line 677, row = futures[fut]: the row the future was submitted for.
Tag(scan, k) == scan.futs[k].row

\* Lines 676-679 for one future, and line 690 after the last one.
Collect(s) ==
    \E k \in DOMAIN scans[s].futs :
        LET scan == scans[s]
            f == scan.futs[k]
        IN /\ scan.pc = "collect"
           /\ Yieldable(f)
           /\ IF f.out.raised # None
              THEN Except(s, scan, f.out.raised)
              ELSE LET got == [scan EXCEPT
                                  !.futs[k].yielded = TRUE,
                                  !.results = Append(@, [row |-> Tag(scan, k),
                                                         status |-> f.out.status,
                                                         latency |-> f.out.latency])]
                   IN IF \A j \in DOMAIN got.futs : got.futs[j].yielded
                      THEN PostResults(s, got)
                      ELSE /\ scans' = [scans EXCEPT ![s] = got]
                           /\ UNCHANGED afterQ
    /\ UNCHANGED <<targets, rows, timeout, max_workers, auto_refresh_seconds, executor,
                   refresh_in_progress, auto_after_id, timers, buttons, saved, clock,
                   dialog, ui, lastCall>>

\* ---------------------------------------------------------- pool threads
Futures == UNION {{<<s, k>> : k \in DOMAIN scans[s].futs} : s \in DOMAIN scans}

Executing(p) ==
    {sk \in Futures : /\ scans[sk[1]].futs[sk[2]].pool = p
                      /\ scans[sk[1]].futs[sk[2]].state = "RUNNING"}

\* The work queue of a pool is first in, first out.
Earlier(s1, k1, s2, k2) == s1 < s2 \/ (s1 = s2 /\ k1 < k2)

HeadOfQueue(s, k) ==
    /\ scans[s].futs[k].state = "PENDING"
    /\ \A s1 \in DOMAIN scans : \A k1 \in DOMAIN scans[s1].futs :
          (/\ scans[s1].futs[k1].pool = scans[s].futs[k].pool
           /\ scans[s1].futs[k1].state = "PENDING") => ~Earlier(s1, k1, s, k)

\* A thread of the pool takes the next work item; a pool has at most
\* max_workers threads.
ProbeStart(s) ==
    \E k \in DOMAIN scans[s].futs :
        /\ HeadOfQueue(s, k)
        /\ Cardinality(Executing(InUse)) < executor.max_workers
        /\ scans' = [scans EXCEPT ![s].futs[k].state = "RUNNING"]
    /\ UNCHANGED <<targets, rows, timeout, max_workers, auto_refresh_seconds, executor,
                   refresh_in_progress, auto_after_id, timers, buttons, saved, clock,
                   dialog, ui, afterQ, lastCall>>

\* check_tcp_open returns or raises; the future keeps what it did.  Nobody
\* waits any more for a probe of a thread that has posted its callback.
\* History, kept for the properties: connect, what create_connection did.
Finish(s, connects) ==
    \E k \in DOMAIN scans[s].futs, c \in connects :
        /\ scans[s].futs[k].state = "RUNNING"
        /\ LET sc == [scans EXCEPT ![s] =
                  IF @.pc \in {"posted", "done"}
                  THEN [@ EXCEPT !.futs = Outstanding(
                            [@ EXCEPT ![k].state = "FINISHED"])]
                  ELSE [@ EXCEPT !.futs[k].state = "FINISHED",
                                 !.futs[k].connect = c,
                                 !.futs[k].out = check_tcp_open(c)]]
           IN /\ scans' = SweepScans(sc, afterQ)
              /\ afterQ' = SweepQueue(sc, afterQ)
    /\ UNCHANGED <<targets, rows, timeout, max_workers, auto_refresh_seconds, executor,
                   refresh_in_progress, auto_after_id, timers, buttons, saved, clock,
                   dialog, ui, lastCall>>

ProbeFinish(s) == Finish(s, ScanConnectResults)

\* ------------------------------------------------------------------ Next
Next ==
    \/ RefreshClick
    \/ AutoRefreshTick
    \/ OpenAddDialog
    \/ OpenSettings
    \/ CancelDialog
    \/ AddTarget
    \/ DeleteRow
    \/ RebuildRows
    \/ ApplySettings
    \/ ApplySettingsFinish
    \/ RunCallback
    \/ \E s \in DOMAIN scans : Snapshot(s)
    \/ \E s \in DOMAIN scans : LoadExecutor(s)
    \/ \E s \in DOMAIN scans : Submit(s)
    \/ \E s \in DOMAIN scans : Collect(s)
    \/ \E s \in DOMAIN scans : ProbeStart(s)
    \/ \E s \in DOMAIN scans : ProbeFinish(s)

Spec == Init /\ [][Next]_vars

\* The program started on a file with one target.
OneTarget == Init /\ Len(targets) = 1

\* ------------------------------------------------ the probes of one row
\* Scans of one target whose probe meets every result of create_connection.
ProbeAnswer(s) == Finish(s, ConnectResults)

ProbeNext ==
    \/ RefreshClick
    \/ RunCallback
    \/ \E s \in DOMAIN scans : Snapshot(s)
    \/ \E s \in DOMAIN scans : LoadExecutor(s)
    \/ \E s \in DOMAIN scans : Submit(s)
    \/ \E s \in DOMAIN scans : Collect(s)
    \/ \E s \in DOMAIN scans : ProbeStart(s)
    \/ \E s \in DOMAIN scans : ProbeAnswer(s)

ProbeSpec == OneTarget /\ [][ProbeNext]_vars

\* ------------------------------------------------- the names of targets
\* Targets are added and deleted, up to MaxNames of them, between scans
\* whose probes all connect; the settings are left as they are.
AddName == AddTargetWithin(MaxNames)

ProbeConnects(s) == Finish(s, {"connected"})

NamesInit == Init /\ timeout = 1 /\ max_workers = 2 /\ auto_refresh_seconds = 0

NamesNext ==
    \/ OpenAddDialog
    \/ AddName
    \/ DeleteRow
    \/ RebuildRows
    \/ RunCallback
    \/ \E s \in DOMAIN scans : Snapshot(s)
    \/ \E s \in DOMAIN scans : LoadExecutor(s)
    \/ \E s \in DOMAIN scans : Submit(s)
    \/ \E s \in DOMAIN scans : Collect(s)
    \/ \E s \in DOMAIN scans : ProbeStart(s)
    \/ \E s \in DOMAIN scans : ProbeConnects(s)

NamesSpec == NamesInit /\ [][NamesNext]_vars

\* ------------------------------------------------- the scheduler in time
\* Spec leaves open when a pending trigger fires.  The timed specification
\* runs the clock of Tk: a second passes while the main loop is idle and has
\* no callback that is due, and a trigger fires once it is due.  Handlers
\* take no time.  The targets are left as they are.
Advance ==
    /\ ui = Ready
    /\ clock.now < MaxTime * MsPerSecond
    /\ \A id \in timers : clock.due[id] > clock.now
    /\ clock' = [clock EXCEPT !.now = @ + MsPerSecond]
    /\ UNCHANGED <<targets, rows, timeout, max_workers, auto_refresh_seconds, executor,
                   refresh_in_progress, auto_after_id, timers, buttons, scans, saved,
                   dialog, ui, afterQ, lastCall>>

Timeout == \E id \in timers : clock.due[id] <= clock.now /\ Fire(id)

TimedNext ==
    \/ Advance
    \/ Timeout
    \/ OpenSettings
    \/ CancelDialog
    \/ ApplySettings
    \/ ApplySettingsFinish
    \/ RunCallback
    \/ \E s \in DOMAIN scans : Snapshot(s)
    \/ \E s \in DOMAIN scans : LoadExecutor(s)
    \/ \E s \in DOMAIN scans : Submit(s)
    \/ \E s \in DOMAIN scans : Collect(s)
    \/ \E s \in DOMAIN scans : ProbeStart(s)
    \/ \E s \in DOMAIN scans : ProbeFinish(s)

TimedSpec == OneTarget /\ [][TimedNext]_vars

\* ------------------------------------------------------------ properties
\* A scan session is a _refresh_worker thread from its start to the end of
\* the callback it posts.
Sessions == {s \in DOMAIN scans : scans[s].pc # "done"}

\* C1: at any time at most one scan session is running, and while one is
\* running the flag refresh_in_progress is set.
C1_SingleFlight ==
    /\ Cardinality(Sessions) <= 1
    /\ Sessions # {} => refresh_in_progress

\* A session is running and a call of refresh_async was made on top of it.
C1_Witness ==
    /\ Sessions # {}
    /\ lastCall = "rejected"

\* C2: a call of refresh_async made while a scan is running changes nothing:
\* not the threads and their futures, the flag, the pool, the configuration,
\* the targets and their rows, or the pending timer.
C2_NoEffectWhileRunning ==
    refresh_in_progress => refresh_async(Self) = Self

\* A call was turned away while the probes of the scan were in the pool.
C2_Witness ==
    /\ lastCall = "rejected"
    /\ refresh_in_progress
    /\ \E s \in Sessions : \E k \in DOMAIN scans[s].futs :
          scans[s].futs[k].state \in {"PENDING", "RUNNING"}

\* The scans whose batch of results is on its way to the rows.
Delivering == {s \in DOMAIN scans : \E i \in DOMAIN afterQ :
                  afterQ[i].scan = s /\ afterQ[i].fn = "apply_results"}

\* C3: a batch has as many results as the snapshot of its scan has rows, every
\* result is that of a future of this scan for a row of the snapshot, and
\* every row of the snapshot has exactly one result.
C3_OneResultPerTarget ==
    \A s \in Delivering :
        LET scan == scans[s]
        IN /\ Len(scan.results) = Len(scan.snap)
           /\ \A i \in DOMAIN scan.results :
                 /\ scan.results[i].row \in DOMAIN scan.snap
                 /\ scan.results[i].row \in DOMAIN scan.futs
                 /\ scan.futs[scan.results[i].row].out.status = scan.results[i].status
           /\ \A k \in DOMAIN scan.snap :
                 Cardinality({i \in DOMAIN scan.results : scan.results[i].row = k}) = 1

\* A batch for two rows, collected in the reverse of the order of the rows.
C3_Witness ==
    \E s \in Delivering :
        /\ Len(scans[s].snap) = 2
        /\ scans[s].results[1].row = 2
        /\ scans[s].results[1].status # scans[s].results[2].status

\* The callbacks a thread has handed to after(0, ...) and that have not run.
Notifications(s) == {i \in DOMAIN afterQ : afterQ[i].scan = s}

\* A thread inside as_completed goes on when a future it waits for finishes;
\* it waits for ever once none of them is queued, running or finished and
\* not yet yielded.
Hung(s) ==
    /\ scans[s].pc = "collect"
    /\ \A k \in DOMAIN scans[s].futs :
          /\ scans[s].futs[k].state \notin {"PENDING", "RUNNING"}
          /\ ~Yieldable(scans[s].futs[k])

\* A thread hands over one callback, as its last act.
C4_AtMostOnce ==
    \A s \in DOMAIN scans :
        /\ Cardinality(Notifications(s)) = IF scans[s].pc = "posted" THEN 1 ELSE 0
        /\ \A i \in Notifications(s) :
              afterQ[i].fn = IF scans[s].exc = None THEN "apply_results" ELSE "recover"

\* C4: every scan invokes exactly one of apply_results and recover, once:
\* a thread never hands over two callbacks, and a thread that has handed
\* over none can still come to hand one over.
C4_ExactlyOneNotification ==
    /\ C4_AtMostOnce
    /\ \A s \in Sessions : ~Hung(s)

\* C5: a scan that is running comes back to idle: while refresh_in_progress
\* is set there is a thread, or a callback of one, that will clear it.
C5_ReturnsToIdle ==
    refresh_in_progress => Sessions # {}

\* C6: a probe never raises: every future that finished holds one of the five
\* outcomes, and no thread is taken to its except clause by a probe.
C6_ProbeNeverRaises ==
    /\ \A sk \in Futures :
          LET f == scans[sk[1]].futs[sk[2]]
          IN f.state = "FINISHED" =>
                f.out.raised = None /\ f.out.status \in Outcomes
    /\ \A s \in DOMAIN scans : scans[s].exc \in {None, "RuntimeError"}

Statuses(rs) == [i \in DOMAIN rs |-> rs[i].status]

\* C7: a scan whose submit or whose fut.result() raised is over: its thread
\* has handed over recover and nothing else, and recover sets the flag back,
\* enables the buttons and writes no result, collected or not, to any row.
C7_FailureAborts ==
    \A s \in DOMAIN scans : scans[s].exc # None =>
        /\ scans[s].pc = "posted"
        /\ Cardinality(Notifications(s)) = 1
        /\ \A i \in Notifications(s) : afterQ[i].fn = "recover"
        /\ LET st == run_recover(Self, s)
           IN /\ ~st.refresh_in_progress
              /\ st.buttons = [refresh_button |-> "normal", add_btn |-> "normal",
                               settings_button |-> "normal"]
              /\ Statuses(st.rows) = Statuses(rows)
              /\ st.scans[s].pc = "done"

\* The callback about to run is recover, for a scan that had collected a
\* result when a later future raised.
C7_Witness ==
    /\ ui = Ready
    /\ afterQ # <<>>
    /\ Head(afterQ).fn = "recover"
    /\ scans[Head(afterQ).scan].exc # None
    /\ scans[Head(afterQ).scan].results # <<>>

\* C8: while a scan is running no step changes the timeout, the number of
\* workers or the pool, and none cancels a future of the scan.
C8_NoReconfigureWhileRunning ==
    [][refresh_in_progress =>
          /\ timeout' = timeout
          /\ max_workers' = max_workers
          /\ executor' = executor
          /\ \A sk \in Futures :
                scans[sk[1]].futs[sk[2]].state = "PENDING" =>
                    /\ sk \in Futures'
                    /\ scans'[sk[1]].futs[sk[2]].state # "CANCELLED"]_vars

\* The threads that are submitting or collecting.
Aggregating == {s \in DOMAIN scans : scans[s].pc \in {"load", "submit", "collect"}}

\* C9: every probe of a scan is submitted with the timeout and to the pool
\* that were in force when refresh_async started the scan.
C9_ConfigFixedDuringScan ==
    \A s \in Aggregating : \A k \in DOMAIN scans[s].futs :
        /\ scans[s].futs[k].timeout = scans[s].cfg0.timeout
        /\ scans[s].futs[k].pool = scans[s].cfg0.pool

AllExecuting == Executing(InUse) \cup Executing(Discarded)

\* C10: the pool in use was made by apply_settings while no scan was running;
\* a scan started since, of more rows than the pool has workers, never has
\* more probes running than that, the probes of discarded pools and of
\* earlier scans counted.
C10_BoundedAfterReconfigure ==
    \A s \in Sessions :
        (/\ executor.installed = "idle"
         /\ scans[s].cfg0.pool = InUse
         /\ Len(scans[s].snap) > executor.max_workers)
        => Cardinality(AllExecuting) <= executor.max_workers

\* The threads that have taken their list of rows.
Snapshotted == {s \in Sessions : scans[s].pc # "start"}

\* C11: the targets a scan probes are the targets of self.targets as they
\* were when refresh_async started the scan; what is added to or deleted from
\* the list afterwards is for the next scan.
C11_SnapshotIsolation ==
    \A s \in Snapshotted :
        [k \in DOMAIN scans[s].snap |-> scans[s].snap[k].target] = scans[s].cfg0.targets

\* C12: no batch holds the result of a probe that was queued or running in
\* a pool when apply_settings discarded that pool.
C12_DiscardedPoolNotDelivered ==
    \A s \in Delivering : \A i \in DOMAIN scans[s].results :
        scans[s].futs[scans[s].results[i].row].at_discard = None

\* C13: between two handlers there is exactly one pending auto-refresh
\* trigger, the one self._auto_after_id names, when auto_refresh_seconds > 0,
\* and none when it is 0: a trigger that was replaced or disabled is no
\* longer pending, so it cannot fire.
C13_OnePendingTrigger ==
    ui.pc # "apply_settings" =>
        /\ timers = IF auto_refresh_seconds > 0 THEN {auto_after_id} ELSE {}
        /\ auto_after_id = NoTimer <=> auto_refresh_seconds = 0

\* The pool was replaced during a scan, which only a tick under the open
\* Settings dialog can have started, and the interval is now 0: a pending
\* trigger was cancelled by apply_settings.
C13_Witness ==
    /\ ui = Ready
    /\ executor.installed = "running"
    /\ auto_refresh_seconds = 0
    /\ timers = {}

\* C14: a pending trigger is due the interval in force, in milliseconds,
\* after the latest call of _schedule_auto_refresh, and a trigger fires at
\* that time: one interval after the tick before it while the interval stays
\* the same, however long the scan takes, and, once the interval was changed
\* at time t to d', at t + d' and at no other time.
C14_FiresOnSchedule ==
    /\ [](\A id \in timers :
            clock.due[id] = clock.sched.at + clock.sched.interval * MsPerSecond)
    /\ [][Timeout =>
            clock.now = clock.sched.at + clock.sched.interval * MsPerSecond]_vars

\* The interval was changed to 2 s after one second, a scan is running, and
\* the trigger is due now, two seconds later.
C14_Witness ==
    /\ ui = Ready
    /\ refresh_in_progress
    /\ clock.sched = [at |-> MsPerSecond, interval |-> 2]
    /\ clock.now = 3 * MsPerSecond
    /\ \E id \in timers : clock.due[id] = clock.now

\* C15: in a batch every result carries the status and the latency returned
\* by the probe that was submitted for the row the result is tagged with,
\* whatever the order the probes finished in.
C15_AttributedByTag ==
    \A s \in Delivering : \A i \in DOMAIN scans[s].results :
        LET r == scans[s].results[i]
            f == scans[s].futs[r.row]
        IN /\ f.row = r.row
           /\ r.status = f.out.status
           /\ r.latency = f.out.latency

\* The probe of the second row finished first and the two probes returned
\* different statuses.
C15_Witness ==
    \E s \in Delivering :
        /\ Len(scans[s].results) = 2
        /\ scans[s].results[1].row = 2
        /\ scans[s].results[1].status = "OPEN"
        /\ scans[s].results[2].status = "CLOSED"

Answered == {sk \in Futures : scans[sk[1]].futs[sk[2]].connect # None}

IOFailures == {c \in ConnectResults : "OSError" \in Bases(c)}

ResultLabels ==
    {set_result(TargetRow(<<>>), o, l).status : o \in Outcomes, l \in {None, "latency_ms"}}

\* A step in which some row comes to show a result.
ShowsResult ==
    \E i \in DOMAIN rows' :
        /\ rows'[i].status \in ResultLabels
        /\ i \in DOMAIN rows => rows'[i].status # rows[i].status

\* The scans whose last probe has finished and whose batch is not applied yet.
Complete ==
    {s \in Sessions : /\ scans[s].pc \in {"collect", "posted"}
                      /\ scans[s].exc = None
                      /\ \A k \in DOMAIN scans[s].futs : scans[s].futs[k].state = "FINISHED"}

\* C17: a row comes to show a result only in a step of the main thread that
\* runs the apply_results callback, and that step writes every result of the
\* batch to its row and ends the scan; from the end of the last probe until
\* then refresh_in_progress stays set and the scan is the only one.
C17_AtomicDelivery ==
    /\ [](\A s \in Complete : refresh_in_progress /\ Sessions = {s})
    /\ [][ShowsResult =>
            /\ ui = Ready /\ afterQ # <<>>
            /\ Head(afterQ).fn = "apply_results"
            /\ LET scan == scans[Head(afterQ).scan]
               IN \A i \in DOMAIN scan.results :
                     LET r == scan.results[i]
                         idx == scan.snap[r.row].idx
                     IN rows'[idx].status = set_result(rows[idx], r.status, r.latency).status
            /\ refresh_in_progress /\ ~refresh_in_progress'
            /\ Len(scans') <= Len(scans)]_vars

\* A batch of two results has been applied and the program is idle.
C17_Witness ==
    /\ ui = Ready
    /\ ~refresh_in_progress
    /\ Len(rows) = 2
    /\ rows[1].status = "CLOSED"
    /\ rows[2].status = "OPEN (latency_ms)"

\* The threads and futures of before the step hold the pools they held.
PoolKept ==
    /\ executor' = executor
    /\ \A s \in DOMAIN scans :
          /\ scans'[s].ex = scans[s].ex
          /\ \A k \in DOMAIN scans[s].futs :
                /\ scans'[s].futs[k].pool = scans[s].futs[k].pool
                /\ scans'[s].futs[k].state = scans[s].futs[k].state

\* The pool in use is a new one of the size now configured, and what held
\* the old pool holds a pool that was shut down: its queue is cancelled, the
\* probes it was running go on.
PoolReplaced ==
    /\ executor'.max_workers = max_workers'
    /\ executor'.installed # "__init__"
    /\ executor' # executor
    /\ \A s \in DOMAIN scans :
          /\ scans'[s].ex # InUse
          /\ \A k \in DOMAIN scans[s].futs :
                /\ scans'[s].futs[k].pool # InUse
                /\ scans[s].futs[k].pool = InUse =>
                      scans'[s].futs[k].state =
                          IF scans[s].futs[k].state = "PENDING" THEN "CANCELLED"
                          ELSE scans[s].futs[k].state

\* C18: apply_settings called with the number of workers in force keeps the
\* pool; called with another number it shuts the pool down and installs a
\* new one of that size; outside apply_settings the pool in use has the
\* size self.max_workers.
C18_PoolReplacedIffChanged ==
    /\ [](ui.pc # "apply_settings" => executor.max_workers = max_workers)
    /\ [][/\ ApplySettings => PoolKept /\ (ui' = Ready <=> max_workers' = max_workers)
          /\ ApplySettingsFinish =>
                PoolReplaced /\ ui.old_workers # max_workers /\ max_workers' = max_workers]_vars

\* A pool of two workers was installed by apply_settings during a scan whose
\* probe is still running in the pool that was shut down.
C18_Witness ==
    /\ ui = Ready
    /\ executor = [max_workers |-> 2, installed |-> "running"]
    /\ \E sk \in Futures : /\ scans[sk[1]].futs[sk[2]].pool = Discarded
                             /\ scans[sk[1]].futs[sk[2]].state = "RUNNING"

Names(ts) == {ts[i].name : i \in DOMAIN ts}

\* C19: no two targets of self.targets have the same name; add_target
\* appends the target under the name typed if no target has it, and else
\* under the name with the least suffix (n), n >= 2, that no target has, and
\* it leaves the targets there were as they were.
C19_DistinctNames ==
    /\ [](\A i, j \in DOMAIN targets : targets[i].name = targets[j].name => i = j)
    /\ [][Len(targets') > Len(targets) =>
            \E t \in InputTargets :
                LET new == targets'[Len(targets')]
                IN /\ targets' = Append(targets, [t EXCEPT !.name = new.name])
                   /\ IF t.name \notin Names(targets) THEN new.name = t.name
                      ELSE \E n \in 2..(Len(targets) + 2) :
                              /\ new.name = Append(t.name, n)
                              /\ new.name \notin Names(targets)
                              /\ \A m \in 2..(n - 1) : Append(t.name, m) \in Names(targets)]_vars

\* "web (2)" was deleted from web, web (2), web (3) and another web was
\* added: it took the suffix (2).
C19_Witness ==
    /\ ui = Ready
    /\ Len(targets) = 3
    /\ targets[1].name = <<"web">>
    /\ targets[2].name = <<"web", 3>>
    /\ targets[3].name = <<"web", 2>>

\* C20: while refresh_in_progress is set no step opens a dialog, and
\* delete_row, open_add_dialog and open_settings leave the targets, the
\* rows, the settings, the pool and the file as they are; add_target called
\* then appends its target and saves the list, and apply_settings called
\* then assigns and saves the settings.
C20_GuardsWhileRunning ==
    [][refresh_in_progress =>
        /\ dialog' \in {dialog, "none"}
        /\ (DeleteRow \/ OpenAddDialog \/ OpenSettings) =>
              UNCHANGED <<targets, rows, timeout, max_workers, auto_refresh_seconds,
                          executor, saved, dialog>>
        /\ AddTarget =>
              /\ Len(targets') = Len(targets) + 1
              /\ saved'.targets = targets'
        /\ (ApplySettings /\ ui' = Ready) \/ ApplySettingsFinish =>
              /\ dialog' = "none"
              /\ saved' = [timeout |-> timeout', max_workers |-> max_workers',
                           auto_refresh |-> auto_refresh_seconds',
                           targets |-> targets']]_vars

\* A scan is running, add_target has added a target since it was started,
\* and the new rows have their delete buttons enabled.
C20_Witness ==
    /\ ui = Ready /\ dialog = "none"
    /\ refresh_in_progress
    /\ \E s \in Sessions : Len(targets) > Len(scans[s].cfg0.targets)
    /\ \E i \in DOMAIN rows : rows[i].delete_btn = "normal"

\* A step in which apply_settings runs to its end.
Applied == (ApplySettings /\ ui' = Ready) \/ ApplySettingsFinish

\* C21: when apply_settings ends, whatever it was given, the only pending
\* trigger is one programmed at that moment for the interval now in force,
\* or none if the interval is 0; refresh_async was called once: if no scan
\* was running one thread is started, with the settings just assigned, and
\* else none is.
C21_RestartsAndRefreshes ==
    [][Applied =>
        /\ clock'.sched = [at |-> clock.now, interval |-> auto_refresh_seconds']
        /\ IF auto_refresh_seconds' > 0
           THEN /\ auto_after_id' # NoTimer
                /\ timers' = {auto_after_id'}
                /\ clock'.due[auto_after_id'] =
                      clock.now + auto_refresh_seconds' * MsPerSecond
           ELSE /\ auto_after_id' = NoTimer
                /\ timers' = {}
        /\ refresh_in_progress'
        /\ IF refresh_in_progress
           THEN /\ lastCall' = "rejected"
                /\ Len(scans') = Len(scans)
           ELSE /\ lastCall' = "started"
                /\ Len(scans') = Len(scans) + 1
                /\ scans'[Len(scans')].pc = "start"
                /\ scans'[Len(scans')].cfg0 =
                      [timeout |-> timeout', pool |-> InUse, targets |-> targets']
                /\ executor'.max_workers = max_workers']_vars

\* One second after the trigger was programmed for two seconds, apply_settings
\* was called while idle with the interval 2 again: the trigger is due two
\* seconds from now and a scan was started.
C21_Witness ==
    /\ ui = Ready /\ dialog = "none"
    /\ lastCall = "started"
    /\ clock.now = MsPerSecond
    /\ clock.sched = [at |-> MsPerSecond, interval |-> 2]
    /\ \E id \in timers : clock.due[id] = 3 * MsPerSecond
    /\ \E s \in Sessions : scans[s].pc = "start"

====
